---- MODULE Spec2Model ----
(***************************************************************************)
(* UsernameMenu (frontend/src/components/UsernameMenu.tsx): an account     *)
(* dropdown that shows the identity provider's user.email in its trigger   *)
(* and offers a "User Profile" link and a "Logout" button in its content.  *)
(*                                                                         *)
(* The component is modelled together with its three collaborators: the    *)
(* identity provider (useAuth0: user, logout), the router (Link) and the   *)
(* dropdown primitive (open/closed).  A provider state change re-renders   *)
(* the component in the same commit, so provider steps include the render. *)
(* The component is mounted once; no step of the model remounts it.        *)
(***************************************************************************)
EXTENDS Naturals, Sequences, FiniteSets

\* ---------------------------------------------------------------- bounds
MaxLogoutClicks == 2
MaxProfileClicks == 2

\* ---------------------------------------------------------------- values
Undefined == "undefined"          \* the JavaScript value undefined
TypeError == "TypeError"          \* a property read on undefined throws
NoText == ""                      \* React renders undefined as no text
Emails == {"a@b.com", "c@d.com"}
Names == {"Ann"}
ClickEvent == "MouseEvent"        \* the argument React passes to onClick

\* useAuth0().user: undefined, or a profile whose email is optional
NoUser == [defined |-> FALSE, email |-> Undefined, name |-> Undefined]
Users ==
  {NoUser} \cup
  [defined : {TRUE}, email : Emails \cup {Undefined}, name : Names]

\* ------------------------------------------------------ the rendered tree
\* {user?.email}: optional chaining yields undefined when user is undefined
TriggerText_name(u) == IF u.defined THEN u.name ELSE Undefined
TriggerText_nochain(u) == IF u.defined THEN u.email ELSE TypeError
TriggerText(u) == IF u.defined THEN u.email ELSE Undefined

\* what React puts in the DOM for a {value} child
RenderText(v) == IF v = Undefined THEN NoText ELSE v

\* one render of the trigger: the text shown, or a throw
Render(u) ==
  IF TriggerText(u) = TypeError
    THEN [text |-> NoText, crashed |-> TRUE]
    ELSE [text |-> RenderText(TriggerText(u)), crashed |-> FALSE]

ProfileLink == [kind |-> "link", label |-> "User Profile"]
LogoutButton == [kind |-> "button", label |-> "Logout"]
SeparatorRule == [kind |-> "separator", label |-> NoText]
UserIcon == [kind |-> "icon", label |-> NoText]

\* children of DropdownMenuTrigger
TriggerChildren_withLogout(u) == <<UserIcon, LogoutButton>>
TriggerChildren(u) == <<UserIcon>>

\* children of DropdownMenuContent, in document order
ContentChildren_authOnly(u) ==
  IF u.defined THEN <<ProfileLink, SeparatorRule, LogoutButton>>
               ELSE <<ProfileLink, SeparatorRule>>
ContentChildren(u) == <<ProfileLink, SeparatorRule, LogoutButton>>

Interactive(e) == e.kind \in {"link", "button"}

InteractiveOf(s) == {s[i] : i \in {j \in 1..Len(s) : Interactive(s[j])}}

\* the entries of the menu content; the content is mounted only while open
MenuEntries(o, u) == IF o THEN InteractiveOf(ContentChildren(u)) ELSE {}

\* everything the user can click besides the trigger itself
Clickable(o, u) == InteractiveOf(TriggerChildren(u)) \cup MenuEntries(o, u)

\* <Link to="/user-profile">
LinkTo_profile == "/profile"
LinkTo == "/user-profile"

\* onClick={() => logout()}: the calls the handler makes, each an argument list
OnClick_forward(event) == << <<event>> >>
OnClick(event) == << <<>> >>

\* <DropdownMenu> carries no defaultOpen and no open prop
DefaultOpen_true == TRUE
DefaultOpen == FALSE

\* ---------------------------------------------------------------- state
VARIABLES
  user,          \* identity provider: current user
  pending,       \* identity provider: logout calls not yet finished
  completed,     \* identity provider: logout calls finished
  logoutCalls,   \* identity provider: argument list of every logout call
  navigations,   \* router: target of every recorded navigation
  open,          \* dropdown primitive: menu open?
  shown,         \* DOM: text of the trigger
  crashed,       \* a render threw
  entries,       \* DOM: interactive entries of the menu content
  clickable,     \* DOM: interactive elements placed by the component
  logoutClicks,  \* history: clicks on the Logout button
  profileClicks, \* history: clicks on the User Profile link
  prevShown,     \* history: trigger text before the latest re-render
  guestActs      \* history: interactions made while user was undefined

vars ==
  <<user, pending, completed, logoutCalls, navigations, open, shown, crashed,
    entries, clickable, logoutClicks, profileClicks, prevShown, guestActs>>

providerVars == <<user, pending, completed>>
domText == <<shown, crashed, prevShown>>

TypeOK ==
  /\ user \in Users
  /\ pending \in 0..MaxLogoutClicks
  /\ completed \in 0..MaxLogoutClicks
  /\ Len(logoutCalls) <= MaxLogoutClicks
  /\ Len(navigations) <= MaxProfileClicks
  /\ open \in BOOLEAN
  /\ crashed \in BOOLEAN
  /\ logoutClicks \in 0..MaxLogoutClicks
  /\ profileClicks \in 0..MaxProfileClicks
  /\ guestActs \subseteq {"trigger", "profile", "logout"}

Init ==
  /\ user \in Users
  /\ pending = 0
  /\ completed = 0
  /\ logoutCalls = <<>>
  /\ navigations = <<>>
  /\ open = DefaultOpen
  /\ shown = Render(user).text
  /\ crashed = Render(user).crashed
  /\ entries = MenuEntries(open, user)
  /\ clickable = Clickable(open, user)
  /\ logoutClicks = 0
  /\ profileClicks = 0
  /\ prevShown = NoText
  /\ guestActs = {}

Note(kind) ==
  guestActs' = IF user.defined THEN guestActs ELSE guestActs \cup {kind}

SetOpen(o) ==
  /\ open' = o
  /\ entries' = MenuEntries(o, user)
  /\ clickable' = Clickable(o, user)

\* ------------------------------------------------------ user interactions
\* pointer or keyboard activation of the trigger of a closed menu
ClickTrigger ==
  /\ ~open
  /\ SetOpen(TRUE)
  /\ Note("trigger")
  /\ UNCHANGED <<providerVars, domText, logoutCalls, navigations,
                 logoutClicks, profileClicks>>

\* pointer down outside the content, or Escape, while the menu is open
ClickOutside ==
  /\ open
  /\ SetOpen(FALSE)
  /\ UNCHANGED <<providerVars, domText, logoutCalls, navigations,
                 logoutClicks, profileClicks, guestActs>>

\* click on the User Profile link: the router navigates, the item closes the menu
ClickUserProfile ==
  /\ ProfileLink \in clickable
  /\ profileClicks < MaxProfileClicks
  /\ profileClicks' = profileClicks + 1
  /\ navigations' = Append(navigations, LinkTo)
  /\ SetOpen(FALSE)
  /\ Note("profile")
  /\ UNCHANGED <<providerVars, domText, logoutCalls, logoutClicks>>

\* click on the Logout button: the handler calls logout and returns at once
ClickLogout_awaits ==
  /\ LogoutButton \in clickable
  /\ pending = 0
  /\ logoutClicks < MaxLogoutClicks
  /\ logoutClicks' = logoutClicks + 1
  /\ logoutCalls' = logoutCalls \o OnClick(ClickEvent)
  /\ pending' = pending + Len(OnClick(ClickEvent))
  /\ SetOpen(FALSE)
  /\ Note("logout")
  /\ UNCHANGED <<user, completed, domText, navigations, profileClicks>>

ClickLogout_guarded ==
  /\ LogoutButton \in clickable
  /\ user.defined
  /\ logoutClicks < MaxLogoutClicks
  /\ logoutClicks' = logoutClicks + 1
  /\ logoutCalls' = logoutCalls \o OnClick(ClickEvent)
  /\ pending' = pending + Len(OnClick(ClickEvent))
  /\ SetOpen(FALSE)
  /\ Note("logout")
  /\ UNCHANGED <<user, completed, domText, navigations, profileClicks>>

ClickLogout_clears ==
  /\ LogoutButton \in clickable
  /\ logoutClicks < MaxLogoutClicks
  /\ logoutClicks' = logoutClicks + 1
  /\ logoutCalls' = logoutCalls \o OnClick(ClickEvent)
  /\ pending' = pending + Len(OnClick(ClickEvent))
  /\ user' = NoUser
  /\ open' = FALSE
  /\ entries' = MenuEntries(FALSE, NoUser)
  /\ clickable' = Clickable(FALSE, NoUser)
  /\ Note("logout")
  /\ UNCHANGED <<completed, domText, navigations, profileClicks>>

ClickLogout ==
  /\ LogoutButton \in clickable
  /\ logoutClicks < MaxLogoutClicks
  /\ logoutClicks' = logoutClicks + 1
  /\ logoutCalls' = logoutCalls \o OnClick(ClickEvent)
  /\ pending' = pending + Len(OnClick(ClickEvent))
  /\ SetOpen(FALSE)
  /\ Note("logout")
  /\ UNCHANGED <<user, completed, domText, navigations, profileClicks>>

\* ------------------------------------------------------ identity provider
Rerender(u) ==
  /\ prevShown' = shown
  /\ shown' = Render(u).text
  /\ crashed' = (crashed \/ Render(u).crashed)
  /\ entries' = MenuEntries(open, u)
  /\ clickable' = Clickable(open, u)

\* the provider resolves or replaces the user; the component re-renders
ProviderSetUser ==
  \E u \in Users :
    /\ u # user
    /\ user' = u
    /\ Rerender(u)
    /\ UNCHANGED <<pending, completed, logoutCalls, navigations, open,
                   logoutClicks, profileClicks, guestActs>>

\* a pending logout finishes: the session is cleared; the component re-renders
LogoutCompletes ==
  /\ pending > 0
  /\ pending' = pending - 1
  /\ completed' = completed + 1
  /\ user' = NoUser
  /\ Rerender(NoUser)
  /\ UNCHANGED <<logoutCalls, navigations, open, logoutClicks, profileClicks,
                 guestActs>>

Next ==
  \/ ClickTrigger
  \/ ClickOutside
  \/ ClickUserProfile
  \/ ClickLogout
  \/ ProviderSetUser
  \/ LogoutCompletes

Spec == Init /\ [][Next]_vars

\* ---------------------------------------------------------------- claims
AllInteractions == {"trigger", "profile", "logout"}

\* C1: every click on the Logout button makes exactly one logout call, and
\* no logout call carries an argument (the click event is not forwarded).
C1_LogoutOncePerClickNoArgs ==
  /\ Len(logoutCalls) = logoutClicks
  /\ \A i \in 1..Len(logoutCalls) : Len(logoutCalls[i]) = 0

C1_Witness == logoutClicks >= 2 /\ Len(logoutCalls) >= 2

C3_MenuLifecycle ==
  /\ ~open
  /\ [][ /\ ClickTrigger => (~open /\ open')
         /\ (ClickOutside \/ ClickUserProfile \/ ClickLogout) => (open /\ ~open')
         /\ (~open /\ open') => ClickTrigger ]_vars

C3_Witness == open /\ logoutClicks > 0 /\ profileClicks > 0

\* C4: whenever the menu is open its interactive entries are exactly the
\* "User Profile" link and the "Logout" button, whatever the user value; the
\* separator is not one of them.
C4_ExactlyTwoEntries ==
  open =>
    /\ entries = {[kind |-> "link", label |-> "User Profile"],
                  [kind |-> "button", label |-> "Logout"]}
    /\ Cardinality(entries) = 2
    /\ \A e \in entries : e.kind # "separator"

C4_Witness == open /\ ~user.defined /\ Cardinality(entries) = 2

\* C5: whenever the provider's user has an email, the trigger shows exactly
\* that email, also after the email changed between two renders.
C5_TriggerShowsCurrentEmail ==
  (user.defined /\ user.email \in Emails) => shown = user.email

C5_Witness ==
  /\ user.defined
  /\ user.email = "c@d.com"
  /\ shown = "c@d.com"
  /\ prevShown = "a@b.com"

\* C6: while the provider has no user, or a user without email, no render
\* has thrown and the trigger shows no email string; this includes renders
\* after the user became undefined again.
C6_NoUserRendersNothing ==
  (~user.defined \/ user.email = Undefined) =>
    /\ ~crashed
    /\ shown = NoText

C6_Witness ==
  /\ ~user.defined
  /\ completed > 0
  /\ prevShown \in Emails
  /\ shown = NoText

\* C7: a step in which the component acts (the menu opens or closes, a click
\* is taken, a navigation or a logout call is recorded) leaves the
\* provider's user unchanged.
C7_ComponentNeverWritesUser ==
  [][ (\/ open' # open
       \/ logoutClicks' # logoutClicks
       \/ profileClicks' # profileClicks
       \/ logoutCalls' # logoutCalls
       \/ navigations' # navigations
       \/ guestActs' # guestActs) => user' = user ]_vars

C7_Witness ==
  /\ user.defined
  /\ logoutClicks > 0
  /\ profileClicks > 0
  /\ pending > 0

\* C8: while a logout is pending the component keeps responding: a closed
\* menu can be opened and an offered Logout button can be clicked again; and
\* every logout call made is either still pending or was completed by the
\* provider (none is cancelled or dropped by the component).
C8_FireAndForget ==
  /\ (pending > 0 /\ ~open) => ENABLED ClickTrigger
  /\ (pending > 0 /\ open /\ logoutClicks < MaxLogoutClicks)
       => ENABLED ClickLogout
  /\ pending + completed = Len(logoutCalls)

C8_Witness == pending >= 2 /\ Len(logoutCalls) >= 2

\* C9: while the menu is closed neither the link nor the button is
\* available, and every step that records a logout call or a navigation
\* starts in a state where the menu is open.
C9_ActionsOnlyFromOpenMenu ==
  /\ [](~open => clickable = {})
  /\ [][ (logoutCalls' # logoutCalls \/ navigations' # navigations)
           => open ]_vars

C9_Witness == ~open /\ Len(logoutCalls) > 0 /\ Len(navigations) > 0

\* C10: with user undefined the trigger still opens the menu and the open
\* menu still lets the link navigate and the button call logout.
C10_NoAuthGuard ==
  ~user.defined =>
    /\ ~open => ENABLED ClickTrigger
    /\ (open /\ profileClicks < MaxProfileClicks) => ENABLED ClickUserProfile
    /\ (open /\ logoutClicks < MaxLogoutClicks) => ENABLED ClickLogout

C10_Witness == ~user.defined /\ guestActs = AllInteractions
====
